---- MODULE Spec2Model ----
(***************************************************************************)
(* Model of user_simulator.Simulator: construction (profile batch load or  *)
(* generation) and simulate_conversation, the loop that alternates         *)
(* researcher and respondent backend calls through the discussion guide    *)
(* and persists the transcript.                                            *)
(*                                                                         *)
(* Every `await Runner.run(...)` is a suspension point: an action is the   *)
(* code that runs from one backend response to the next backend call.      *)
(* Python list indices are 0-based, TLA+ sequences 1-based: blocks[k] of   *)
(* the code is blocks[k + 1] here.                                         *)
(***************************************************************************)
EXTENDS Integers, Sequences, FiniteSets, TLC

\* ------------------------------------------------------------------ bounds
MaxBlocks == 2
MaxQuestions == 3
MaxUsers == 2
MaxBatch == 2
MaxClock == 1

\* ------------------------------------------------------- program constants
WindowSize == 4

\* --------------------------------------------------------------- value sets
None == "<None>"
Questions == {"Q1"}
Answers == {"A1"}
Personas == {"P1", "P2"}
Descriptors == {"D1"}
SimulationId == "R"
StudyName == "S"
StudySummary == "summary"
UserPopulation == "pulmonologist"

Indices == 0 .. (MaxUsers - 1)

\* mutant of Truthy: `is not None` in place of truthiness
Truthy_NotNone(s) == s # None

\* Python truthiness of an Optional[str]
Truthy(s) == s # None /\ s # ""

\* mutant of OrEmpty: final_output as it is, without `or ""`
OrEmpty_AsIs(s) == s

\* `x or ""`
OrEmpty(s) == IF Truthy(s) THEN s ELSE ""

\* the guides the Discussion Guide Provider can supply: 0..MaxBlocks blocks
Guides == { [k \in 1 .. n |-> k] : n \in 0 .. MaxBlocks }

\* what client.responses.parse can hand back: no parsed output, or a batch
BatchesOfLen(n) == [1 .. n -> Personas]
ParsedOutputs ==
    {[parsed |-> FALSE, profiles |-> <<>>]} \cup
    { [parsed |-> TRUE, profiles |-> b] :
        b \in UNION { BatchesOfLen(n) : n \in 0 .. MaxBatch } }

\* a held profile: the dumped persona plus the descriptor under key 'profile'
HeldProfiles == [persona : Personas, profile : Descriptors]
PersistedBatches == UNION { [1 .. n -> HeldProfiles] : n \in 0 .. MaxUsers }

\* researcher_result.final_output: absent, or a ResearcherOutput
ResearcherOutputs ==
    {[output |-> FALSE, next_question |-> None, finished |-> FALSE]} \cup
    [output : {TRUE}, next_question : {None, ""} \cup Questions, finished : BOOLEAN]

\* user_result.final_output
UserOutputs == {None, ""} \cup Answers

VARIABLES
    study,              \* self.study["discussion_guide"]["blocks"]
    profile_file,       \* user_profiles.json of the run directory
    profile_writes,     \* number of times user_profiles.json was written
    sim_pc,             \* "none" | "generating" | "ready" | "failed"
    number_of_users,    \* self.number_of_users
    user_profiles,      \* self.user_profiles
    generated_profiles, \* local of generate_users
    gen_calls,          \* generate_profile calls made by the current construction
    conv,               \* per respondent index: the frame of simulate_conversation
    conversations,      \* files of conversations_dir: {[name, doc]}, one per name
    now                 \* clock, in seconds

simvars == <<sim_pc, number_of_users, user_profiles, generated_profiles, gen_calls,
             profile_file, profile_writes>>
vars == <<study, simvars, conv, conversations, now>>

NoFile == [exists |-> FALSE, data |-> <<>>]
NoContext == [exists |-> FALSE, discussion_block |-> 0, user_profile |-> <<>>,
              user_population |-> None, study_title |-> None, study_summary |-> None]
NoOutput == [output |-> FALSE, next_question |-> None, finished |-> FALSE]
NoReturn == [returned |-> FALSE, value |-> <<>>]
NoDraws == [low |-> FALSE, choice |-> 0, short |-> FALSE]

\* the frame of a simulate_conversation call that has not been made:
\*   pc                position: "idle", "await_researcher", "await_respondent",
\*                     "done", "value_error", "index_error", "backend_error",
\*                     "cancelled"
\*   context, dialogue, block_index, user_dialogue, agent_input,
\*   researcher_output the locals of the code
\*   researcher_calls, user_calls, finished_signals   calls made, signals consumed
\*   asked             questions asked in each block
\*   gen_block         the context's block when each turn was generated
\*   saved             save_conversation calls made by this call
\*   returned          the value returned to the caller
\*   input_items       the list the executor hands to on_llm_start and then to
\*                     the backend; empty until the hook of the call has run
\*   friction_draws    the random draws of that hook call
IdleFrame ==
    [pc |-> "idle", context |-> NoContext, dialogue |-> <<>>, block_index |-> 0,
     agent_input |-> <<>>, user_dialogue |-> <<>>, researcher_output |-> NoOutput,
     researcher_calls |-> 0, user_calls |-> 0, finished_signals |-> 0,
     asked |-> <<>>, gen_block |-> <<>>, saved |-> 0, returned |-> NoReturn,
     input_items |-> <<>>, friction_draws |-> NoDraws]

InProgress(i) == conv[i].pc \in {"await_researcher", "await_respondent"}

\* the batches a constructed Simulator holds in the conversation checks:
\* 0..MaxUsers profiles, neighbours differing
PersonaOf(k) == IF k % 2 = 1 THEN "P1" ELSE "P2"
HeldBatches ==
    { [k \in 1 .. n |-> [persona |-> PersonaOf(k), profile |-> "D1"]] : n \in 0 .. MaxUsers }

\* before any Simulator is constructed: the run directory may hold a batch
InitCtor ==
    /\ study \in Guides
    /\ profile_file \in {NoFile} \cup
          { [exists |-> TRUE, data |-> b] : b \in PersistedBatches }
    /\ profile_writes = 0
    /\ sim_pc = "none"
    /\ number_of_users = 0
    /\ user_profiles = <<>>
    /\ generated_profiles = <<>>
    /\ gen_calls = 0
    /\ conv = [i \in Indices |-> IdleFrame]
    /\ conversations = {}
    /\ now = 0

\* after Simulator.__init__ returned: the study is loaded, the profiles are
\* held and on disk, no conversation has been simulated
Init ==
    /\ study \in Guides
    /\ user_profiles \in HeldBatches
    /\ profile_file = [exists |-> TRUE, data |-> user_profiles]
    /\ profile_writes = 0
    /\ sim_pc = "ready"
    /\ number_of_users = Len(user_profiles)
    /\ generated_profiles = <<>>
    /\ gen_calls = 0
    /\ conv = [i \in Indices |-> IdleFrame]
    /\ conversations = {}
    /\ now = 0

\* ------------------------------------------------------- Simulator.__init__

\* json.load(json.dump(x)) of a list of str-keyed dicts of str: the same list
JsonRoundTrip(batch) == [k \in 1 .. Len(batch) |-> [f \in DOMAIN batch[k] |-> batch[k][f]]]

\* mutant of generate_profile: a default profile when no profile was parsed
generate_profile_Default(out, k) ==
    IF ~out.parsed \/ Len(out.profiles) = 0
    THEN [raised |-> FALSE, value |-> [persona |-> "P1"]]
    ELSE [raised |-> FALSE, value |-> [persona |-> out.profiles[k]]]

\* simulate_profiles.generate_profile: random.choice over the parsed batch;
\* k is the index random.choice draws
generate_profile(out, k) ==
    IF ~out.parsed \/ Len(out.profiles) = 0
    THEN [raised |-> TRUE, value |-> [persona |-> None]]
    ELSE [raised |-> FALSE, value |-> [persona |-> out.profiles[k]]]

\* mutant of WithDescriptor: the descriptor is not stored in the profile
WithDescriptor_Dropped(profile, d) == profile

\* profile["profile"] = profile_str
WithDescriptor(profile, d) ==
    [f \in (DOMAIN profile) \cup {"profile"} |->
        IF f = "profile" THEN d ELSE profile[f]]

\* the tail of generate_users once the loop is over: write the file, return
FinishGenerate(profiles) ==
    /\ profile_file' = [exists |-> TRUE, data |-> profiles]
    /\ profile_writes' = profile_writes + 1
    /\ user_profiles' = profiles
    /\ sim_pc' = "ready"

ResetConversations == conv' = [i \in Indices |-> IdleFrame]

\* mutant of ProfilesExist: the test looks at a path that is never written
ProfilesExist_WrongPath == FALSE

\* os.path.exists(self.user_profiles_path)
ProfilesExist == profile_file.exists

\* mutant of Construct: a persisted batch longer than number_of_users is cut
\* to the requested number
Construct_Truncates(n) ==
    /\ sim_pc # "generating"
    /\ \A i \in Indices : ~InProgress(i)
    /\ number_of_users' = n
    /\ gen_calls' = 0
    /\ generated_profiles' = <<>>
    /\ ResetConversations
    /\ IF ~ProfilesExist
       THEN IF n = 0
            THEN FinishGenerate(<<>>)
            ELSE /\ sim_pc' = "generating"
                 /\ user_profiles' = <<>>
                 /\ UNCHANGED <<profile_file, profile_writes>>
       ELSE /\ user_profiles' =
                  SubSeq(JsonRoundTrip(profile_file.data), 1,
                         IF n < Len(profile_file.data) THEN n ELSE Len(profile_file.data))
            /\ sim_pc' = "ready"
            /\ UNCHANGED <<profile_file, profile_writes>>
    /\ UNCHANGED <<study, conversations, now>>

\* Simulator(number_of_users = n, simulation_id = R): a new Simulator object
\* for the run directory; the previous object and its finished calls are gone
Construct(n) ==
    /\ sim_pc # "generating"
    /\ \A i \in Indices : ~InProgress(i)
    /\ number_of_users' = n
    /\ gen_calls' = 0
    /\ generated_profiles' = <<>>
    /\ ResetConversations
    /\ IF ~ProfilesExist
       THEN IF n = 0
            THEN FinishGenerate(<<>>)
            ELSE /\ sim_pc' = "generating"
                 /\ user_profiles' = <<>>
                 /\ UNCHANGED <<profile_file, profile_writes>>
       ELSE /\ user_profiles' = JsonRoundTrip(profile_file.data)
            /\ sim_pc' = "ready"
            /\ UNCHANGED <<profile_file, profile_writes>>
    /\ UNCHANGED <<study, conversations, now>>

\* one iteration of the loop of generate_users: the backend answers the
\* generate_profile call with `out`; the last iteration also writes the file
GenerateProfileReturns(out, k, d) ==
    /\ sim_pc = "generating"
    /\ gen_calls' = gen_calls + 1
    /\ LET r == generate_profile(out, k) IN
       IF r.raised
       THEN /\ sim_pc' = "failed"
            /\ UNCHANGED <<generated_profiles, user_profiles, profile_file, profile_writes>>
       ELSE LET profiles == Append(generated_profiles, WithDescriptor(r.value, d)) IN
            /\ generated_profiles' = profiles
            /\ IF Len(profiles) = number_of_users
               THEN FinishGenerate(profiles)
               ELSE UNCHANGED <<sim_pc, user_profiles, profile_file, profile_writes>>
    /\ UNCHANGED <<study, number_of_users, conv, conversations, now>>

\* mutant of GenerateProfileFails: the profiles generated so far are written
\* on the way out
GenerateProfileFails_SavesPartial ==
    /\ sim_pc = "generating"
    /\ gen_calls' = gen_calls + 1
    /\ sim_pc' = "failed"
    /\ profile_file' = [exists |-> TRUE, data |-> generated_profiles]
    /\ profile_writes' = profile_writes + 1
    /\ UNCHANGED <<study, number_of_users, generated_profiles, user_profiles,
                   conv, conversations, now>>

\* the backend call of generate_profile raises (network, timeout)
GenerateProfileFails ==
    /\ sim_pc = "generating"
    /\ gen_calls' = gen_calls + 1
    /\ sim_pc' = "failed"
    /\ UNCHANGED <<study, number_of_users, generated_profiles, user_profiles,
                   profile_file, profile_writes, conv, conversations, now>>

\* ---------------------------------------------- Simulator.simulate_conversation

Turn(role, content) == [role |-> role, content |-> content]

\* mutant of ResearcherInput: the researcher sees the respondent's window
ResearcherInput_Window(d) ==
    IF Len(d) > WindowSize THEN SubSeq(d, Len(d) - WindowSize + 1, Len(d))
    ELSE IF Len(d) > 0 THEN d
    ELSE <<Turn("user", "Hi")>>

\* `dialogue if dialogue else [{"role": "user", "content": "Hi"}]`
ResearcherInput(d) == IF Len(d) > 0 THEN d ELSE <<Turn("user", "Hi")>>

\* mutant of Window: dialogue[:4], the head in place of the tail
Window_Head(d) ==
    IF Len(d) > WindowSize THEN SubSeq(d, 1, WindowSize) ELSE d

\* `dialogue[-4:] if len(dialogue) > 4 else dialogue`
Window(d) ==
    IF Len(d) > WindowSize THEN SubSeq(d, Len(d) - WindowSize + 1, Len(d)) ELSE d

\* mutant of next_block: off by one, hands back the block before
next_block_Prev(blocks, index) ==
    IF 0 <= index /\ index < Len(blocks)
    THEN [found |-> TRUE, block |-> blocks[IF index = 0 THEN 1 ELSE index]]
    ELSE [found |-> FALSE, block |-> 0]

\* Simulator._next_block; found = FALSE stands for None
next_block(blocks, index) ==
    IF 0 <= index /\ index < Len(blocks)
    THEN [found |-> TRUE, block |-> blocks[index + 1]]
    ELSE [found |-> FALSE, block |-> 0]

\* Simulator._initial_context, for a guide that has a first block
initial_context(blocks, user_profile) ==
    [exists |-> TRUE, discussion_block |-> blocks[1], user_profile |-> user_profile,
     user_population |-> UserPopulation, study_title |-> StudyName,
     study_summary |-> StudySummary]

\* mutant of save_conversation: total_turns counts the opening turn as well
save_conversation_CountsOpening(index, dlg, user_profile, t1, t2) ==
    [name |-> <<index, t2>>,
     doc  |-> [profile  |-> user_profile,
               dialogue |-> dlg,
               metadata |-> [simulation_id   |-> SimulationId,
                             user_index      |-> index,
                             study           |-> StudyName,
                             timestamp       |-> t1,
                             total_turns     |-> Len(dlg) + 1,
                             user_population |-> UserPopulation]]]

\* Simulator.save_conversation: the file it writes; t1 and t2 are the two
\* readings of datetime.now(), the name has the index and t2 to the second
save_conversation(index, dlg, user_profile, t1, t2) ==
    [name |-> <<index, t2>>,
     doc  |-> [profile  |-> user_profile,
               dialogue |-> dlg,
               metadata |-> [simulation_id   |-> SimulationId,
                             user_index      |-> index,
                             study           |-> StudyName,
                             timestamp       |-> t1,
                             total_turns     |-> Len(dlg),
                             user_population |-> UserPopulation]]]

\* open(filepath, "w"): creates the file or replaces the one of that name
WriteFile(files, file) == { g \in files : g.name # file.name } \cup {file}

\* mutant of AdvanceBlock: a question carried by a finished output is kept
AdvanceBlock_KeepsQuestion(blocks, f, out) ==
    LET bi == f.block_index + 1
        nb == next_block(blocks, bi)
        d  == IF Truthy(out.next_question)
              THEN Append(f.dialogue, Turn("assistant", out.next_question))
              ELSE f.dialogue
    IN  IF ~nb.found
        THEN [f EXCEPT !.researcher_output = out,
                       !.finished_signals = @ + 1,
                       !.block_index = bi,
                       !.dialogue = d,
                       !.pc = "break"]
        ELSE [f EXCEPT !.researcher_output = out,
                       !.finished_signals = @ + 1,
                       !.block_index = bi,
                       !.dialogue = d,
                       !.context.discussion_block = nb.block,
                       !.agent_input = ResearcherInput(d),
                       !.researcher_calls = @ + 1]

\* lines 155-161: the output is a finished signal; the block index moves on
\* and the loop either breaks (pc "break") or calls the researcher again
AdvanceBlock(blocks, f, out) ==
    LET bi == f.block_index + 1
        nb == next_block(blocks, bi)
    IN  IF ~nb.found
        THEN [f EXCEPT !.researcher_output = out,
                       !.finished_signals = @ + 1,
                       !.block_index = bi,
                       !.pc = "break"]
        ELSE [f EXCEPT !.researcher_output = out,
                       !.finished_signals = @ + 1,
                       !.block_index = bi,
                       !.context.discussion_block = nb.block,
                       !.agent_input = ResearcherInput(f.dialogue),
                       !.researcher_calls = @ + 1]

\* mutant of InvalidOutput: the loop is left by break, not by the exception
InvalidOutput_Breaks(f, out) ==
    [f EXCEPT !.researcher_output = out, !.pc = "break"]

\* line 164: raise ValueError("No next question from market researcher")
InvalidOutput(f, out) ==
    [f EXCEPT !.researcher_output = out, !.pc = "value_error"]

\* mutant of AskQuestion: a turn cap ends the loop once 4 turns are there
AskQuestion_Capped(f, out) ==
    IF Len(f.dialogue) >= 4
    THEN [f EXCEPT !.researcher_output = out, !.pc = "break"]
    ELSE LET d == Append(f.dialogue, Turn("assistant", out.next_question))
         IN  [f EXCEPT !.researcher_output = out,
                       !.dialogue = d,
                       !.asked[f.block_index + 1] = @ + 1,
                       !.gen_block = Append(@, f.context.discussion_block),
                       !.user_dialogue = Window(d),
                       !.user_calls = @ + 1,
                       !.pc = "await_respondent"]

\* lines 166-177: append the question, call the respondent on the window
AskQuestion(f, out) ==
    LET d == Append(f.dialogue, Turn("assistant", out.next_question))
    IN  [f EXCEPT !.researcher_output = out,
                  !.dialogue = d,
                  !.asked[f.block_index + 1] = @ + 1,
                  !.gen_block = Append(@, f.context.discussion_block),
                  !.user_dialogue = Window(d),
                  !.user_calls = @ + 1,
                  !.pc = "await_respondent"]

\* mutant of OnResearcherOutput: the question is looked at first, finished
\* only when there is none
OnResearcherOutput_QuestionFirst(blocks, f, out) ==
    IF out.output /\ Truthy(out.next_question)
    THEN AskQuestion(f, out)
    ELSE IF out.output /\ out.finished
    THEN AdvanceBlock(blocks, f, out)
    ELSE InvalidOutput(f, out)

\* lines 152-177: what the loop does with a researcher output, up to the next
\* backend call or to the exit of the loop
OnResearcherOutput(blocks, f, out) ==
    IF out.output /\ out.finished
    THEN AdvanceBlock(blocks, f, out)
    ELSE IF ~out.output \/ ~Truthy(out.next_question)
    THEN InvalidOutput(f, out)
    ELSE AskQuestion(f, out)

\* mutant of OnUserOutput: the answer is appended under the researcher's role
OnUserOutput_WrongRole(f, answer) ==
    LET d == Append(f.dialogue, Turn("assistant", OrEmpty(answer)))
    IN  [f EXCEPT !.dialogue = d,
                  !.gen_block = Append(@, f.context.discussion_block),
                  !.agent_input = ResearcherInput(d),
                  !.researcher_calls = @ + 1,
                  !.pc = "await_researcher"]

\* mutant of OnUserOutput: an empty answer is not appended
OnUserOutput_SkipEmpty(f, answer) ==
    LET d == IF Truthy(answer)
             THEN Append(f.dialogue, Turn("user", answer))
             ELSE f.dialogue
    IN  [f EXCEPT !.dialogue = d,
                  !.gen_block = IF Truthy(answer)
                                THEN Append(@, f.context.discussion_block) ELSE @,
                  !.agent_input = ResearcherInput(d),
                  !.researcher_calls = @ + 1,
                  !.pc = "await_researcher"]

\* lines 178-180 and 146-151: append the answer, call the researcher again
OnUserOutput(f, answer) ==
    LET d == Append(f.dialogue, Turn("user", OrEmpty(answer)))
    IN  [f EXCEPT !.dialogue = d,
                  !.gen_block = Append(@, f.context.discussion_block),
                  !.agent_input = ResearcherInput(d),
                  !.researcher_calls = @ + 1,
                  !.pc = "await_researcher"]

\* ------------------------------------------------------ SystemInstructionsHook

high_frequency_friction == "Keep this response SHORT (1-2 sentences max)"

\* the catalog of generate_friction_instruction, its entries by their topic;
\* the first is the text of high_frequency_friction
low_frequency_friction ==
    << "Keep this response SHORT (1-2 sentences max)", "longer response", "false start",
       "specific recent case", "uncertainty", "practice constraint",
       "time period", "mild emotion", "unique context",
       "colleague interaction", "patient outcome", "colloquial language" >>

\* the draws of one generate_friction_instruction call: random.random() < 0.3,
\* the index random.choice takes (0: not drawn), random.random() < 0.5
FrictionDraws ==
    [low : {FALSE}, choice : {0}, short : BOOLEAN] \cup
    [low : {TRUE}, choice : 1 .. Len(low_frequency_friction), short : BOOLEAN]

\* sep.join(lines), for a list that is not empty
RECURSIVE Join(_, _)
Join(lines, sep) ==
    IF Len(lines) = 1 THEN lines[1] ELSE lines[1] \o sep \o Join(Tail(lines), sep)

\* injected_list of generate_friction_instruction
injected_list(draws) ==
    (IF draws.low THEN <<low_frequency_friction[draws.choice]>> ELSE <<>>) \o
    (IF draws.short THEN <<high_frequency_friction>> ELSE <<>>)

\* mutant of generate_friction_instruction: `elif` for the second trigger,
\* the short-response directive only when the first did not fire
generate_friction_instruction_Elif(draws) ==
    IF draws.low THEN low_frequency_friction[draws.choice]
    ELSE IF draws.short THEN high_frequency_friction
    ELSE None

\* SystemInstructionsHook.generate_friction_instruction
generate_friction_instruction(draws) ==
    IF injected_list(draws) # <<>> THEN Join(injected_list(draws), "\n") ELSE None

\* user_profile.get('communication_style', 'Professional'); the persona of a
\* profile stands for its five Profile fields
communication_style(user_profile) ==
    IF "persona" \in DOMAIN user_profile THEN user_profile.persona ELSE "Professional"

\* base_instruction of on_llm_start
base_instruction(user_profile) ==
    "Respond as a real clinician. Communication style: "
        \o communication_style(user_profile) \o " Avoid AI patterns"

\* list.insert(index, x)
Insert(list, index, x) ==
    LET at == IF index > Len(list) THEN Len(list) ELSE index
    IN  SubSeq(list, 1, at) \o <<x>> \o SubSeq(list, at + 1, Len(list))

\* mutant of on_llm_start: the friction message is inserted at the beginning
on_llm_start_FrictionFirst(context, input_items, draws) ==
    LET system_message == Turn("system", base_instruction(context.user_profile))
        with_base == Insert(input_items, 0, system_message)
        friction_instruction == generate_friction_instruction(draws)
    IN  [context |-> context,
         input_items |->
            IF Truthy(friction_instruction)
            THEN Insert(with_base, 0, Turn("system", friction_instruction))
            ELSE with_base]

\* mutant of on_llm_start: the hook keeps the current block out of the context
on_llm_start_DropsBlock(context, input_items, draws) ==
    LET system_message == Turn("system", base_instruction(context.user_profile))
        with_base == Insert(input_items, 0, system_message)
        friction_instruction == generate_friction_instruction(draws)
    IN  [context |-> [context EXCEPT !.discussion_block = 0],
         input_items |->
            IF Truthy(friction_instruction)
            THEN Insert(with_base, 1, Turn("system", friction_instruction))
            ELSE with_base]

\* SystemInstructionsHook.on_llm_start: what the hook leaves in the two
\* mutable objects it is handed, the context and the input list
on_llm_start(context, input_items, draws) ==
    LET system_message == Turn("system", base_instruction(context.user_profile))
        with_base == Insert(input_items, 0, system_message)
        friction_instruction == generate_friction_instruction(draws)
    IN  [context |-> context,
         input_items |->
            IF Truthy(friction_instruction)
            THEN Insert(with_base, 1, Turn("system", friction_instruction))
            ELSE with_base]

\* simulate_conversation(i) is called: lines 140-151, up to the first
\* researcher call; user_profiles[i] or blocks[0] may raise IndexError
NewFrame(i) ==
    IF i >= Len(user_profiles) \/ Len(study) = 0
    THEN [IdleFrame EXCEPT !.pc = "index_error"]
    ELSE [IdleFrame EXCEPT
            !.context = initial_context(study, user_profiles[i + 1]),
            !.asked = [k \in 1 .. Len(study) |-> 0],
            !.agent_input = ResearcherInput(<<>>),
            !.researcher_calls = 1,
            !.pc = "await_researcher"]

\* the driver calls simulate_conversation once for a respondent index; a
\* driver that runs the conversations as concurrent tasks calls it at any time
StartConversation(i) ==
    /\ sim_pc = "ready"
    /\ conv[i].pc = "idle"
    /\ conv' = [conv EXCEPT ![i] = NewFrame(i)]
    /\ UNCHANGED <<study, simvars, conversations, now>>

\* the first call made on a constructed Simulator
StartSequential(i) ==
    /\ \A j \in Indices : conv[j].pc = "idle"
    /\ StartConversation(i)

\* mutant of ResearcherReturns: one StudyContext is shared by all the
\* conversations, a block advance of one shows in the context of the others
ResearcherReturns_SharedContext(i, out, t1, t2) ==
    /\ conv[i].pc = "await_researcher"
    /\ (~out.finished /\ Truthy(out.next_question)) => conv[i].user_calls < MaxQuestions
    /\ LET f == OnResearcherOutput(study, conv[i], out)
           shared(j) == IF j # i /\ InProgress(j)
                        THEN [conv[j] EXCEPT !.context = f.context]
                        ELSE conv[j]
       IN
       IF f.pc = "break"
       THEN /\ conversations' = WriteFile(conversations,
                  save_conversation(i, f.dialogue, user_profiles[i + 1], t1, t2))
            /\ now' = t2
            /\ conv' = [j \in Indices |->
                  IF j = i
                  THEN [f EXCEPT !.saved = @ + 1,
                                 !.returned = [returned |-> TRUE, value |-> f.dialogue],
                                 !.pc = "done"]
                  ELSE shared(j)]
       ELSE /\ conv' = [j \in Indices |-> IF j = i THEN f ELSE shared(j)]
            /\ UNCHANGED <<conversations, now>>
    /\ UNCHANGED <<study, simvars>>

\* the researcher call of conversation i returns `out`; the loop runs to the
\* next backend call, to the ValueError, or to the end (save and return)
ResearcherReturns(i, out, t1, t2) ==
    /\ conv[i].pc = "await_researcher"
    /\ (~out.finished /\ Truthy(out.next_question)) => conv[i].user_calls < MaxQuestions
    /\ LET f == OnResearcherOutput(study, conv[i], out) IN
       IF f.pc = "break"
       THEN /\ conversations' = WriteFile(conversations,
                  save_conversation(i, f.dialogue, user_profiles[i + 1], t1, t2))
            /\ now' = t2
            /\ conv' = [conv EXCEPT ![i] =
                  [f EXCEPT !.saved = @ + 1,
                            !.returned = [returned |-> TRUE, value |-> f.dialogue],
                            !.pc = "done"]]
       ELSE /\ conv' = [conv EXCEPT ![i] = f]
            /\ UNCHANGED <<conversations, now>>
    /\ UNCHANGED <<study, simvars>>

\* the respondent call of conversation i returns `answer`; Runner.run works
\* on its own copy of the input list, the call leaves `dialogue` as it was
RespondentReturns(i, answer) ==
    /\ conv[i].pc = "await_respondent"
    /\ conv' = [conv EXCEPT ![i] =
          [OnUserOutput(conv[i], answer) EXCEPT !.input_items = <<>>,
                                                !.friction_draws = NoDraws]]
    /\ UNCHANGED <<study, simvars, conversations, now>>

\* mutant of OnLlmStart: the executor hands the hook the caller's list; when
\* user_dialogue is the dialogue itself (not a slice) the inserts show in both
OnLlmStart_CallersList(i, draws) ==
    /\ conv[i].pc = "await_respondent"
    /\ conv[i].input_items = <<>>
    /\ LET h == on_llm_start(conv[i].context, conv[i].user_dialogue, draws) IN
       conv' = [conv EXCEPT ![i].context = h.context,
                            ![i].input_items = h.input_items,
                            ![i].user_dialogue = h.input_items,
                            ![i].dialogue = IF Len(@) > WindowSize THEN @
                                            ELSE h.input_items,
                            ![i].friction_draws = draws]
    /\ UNCHANGED <<study, simvars, conversations, now>>

\* inside the respondent's Runner.run: the executor calls on_llm_start with
\* the context and with its own copy of the input, before the backend call
OnLlmStart(i, draws) ==
    /\ conv[i].pc = "await_respondent"
    /\ conv[i].input_items = <<>>
    /\ LET h == on_llm_start(conv[i].context, conv[i].user_dialogue, draws) IN
       conv' = [conv EXCEPT ![i].context = h.context,
                            ![i].input_items = h.input_items,
                            ![i].friction_draws = draws]
    /\ UNCHANGED <<study, simvars, conversations, now>>

\* the backend answers the request the hook has prepared
RespondentAnswers(i, answer) ==
    /\ conv[i].input_items # <<>>
    /\ RespondentReturns(i, answer)

\* a backend call of conversation i raises: the exception leaves the coroutine
BackendFails(i) ==
    /\ InProgress(i)
    /\ conv' = [conv EXCEPT ![i].pc = "backend_error"]
    /\ UNCHANGED <<study, simvars, conversations, now>>

\* the task of conversation i is cancelled while it waits for the backend
Cancel(i) ==
    /\ InProgress(i)
    /\ conv' = [conv EXCEPT ![i].pc = "cancelled"]
    /\ UNCHANGED <<study, simvars, conversations, now>>

Next ==
    \/ \E i \in Indices : StartSequential(i)
    \/ \E i \in Indices, out \in ResearcherOutputs, t1 \in now .. MaxClock :
          \E t2 \in t1 .. MaxClock : ResearcherReturns(i, out, t1, t2)
    \/ \E i \in Indices, answer \in UserOutputs : RespondentReturns(i, answer)
    \/ \E i \in Indices : BackendFails(i)
    \/ \E i \in Indices : Cancel(i)

Spec == Init /\ [][Next]_vars

\* ---- a backend that never fails and signals finished in the end ----

\* the researcher call of conversation i returns a finished signal
ResearcherFinishes(i) ==
    \E out \in ResearcherOutputs, t1 \in now .. MaxClock :
        \E t2 \in t1 .. MaxClock :
            /\ out.output /\ out.finished
            /\ ResearcherReturns(i, out, t1, t2)

\* the researcher call of conversation i returns a question
ResearcherAsks(i) ==
    \E out \in ResearcherOutputs :
        /\ out.output /\ ~out.finished /\ Truthy(out.next_question)
        /\ ResearcherReturns(i, out, now, now)

NextLive ==
    \/ \E i \in Indices : StartSequential(i)
    \/ \E i \in Indices : ResearcherFinishes(i)
    \/ \E i \in Indices : ResearcherAsks(i)
    \/ \E i \in Indices, answer \in UserOutputs : RespondentReturns(i, answer)

\* every respondent call is answered; a researcher that is called again and
\* again signals finished at some call
SpecLive ==
    /\ Init
    /\ [][NextLive]_vars
    /\ \A i \in Indices : WF_vars(\E answer \in UserOutputs : RespondentReturns(i, answer))
    /\ \A i \in Indices : SF_vars(ResearcherFinishes(i))

\* ---- a driver that simulates respondents again, one call after the other ----

\* simulate_conversation(i) is called while no call is running, for an index
\* that may have been simulated before; the frames of the calls that returned
\* are gone. The driver stops calling once two transcripts are on disk.
StartAgain(i) ==
    /\ sim_pc = "ready"
    /\ \A j \in Indices : ~InProgress(j)
    /\ Cardinality(conversations) <= 1
    /\ conv' = [j \in Indices |-> IF j = i THEN NewFrame(i) ELSE IdleFrame]
    /\ UNCHANGED <<study, simvars, conversations, now>>

\* a researcher that asks one question at most: its first output
ResearcherAsksFirst(i) ==
    /\ conv[i].dialogue = <<>>
    /\ ResearcherAsks(i)

NextStore ==
    \/ \E i \in Indices : StartAgain(i)
    \/ \E i \in Indices : ResearcherFinishes(i)
    \/ \E i \in Indices : ResearcherAsksFirst(i)
    \/ \E i \in Indices, answer \in UserOutputs : RespondentReturns(i, answer)

SpecStore == Init /\ [][NextStore]_vars

\* ---- a driver that runs the respondents' conversations as concurrent tasks ----

\* the researcher of conversation i signals finished, with no question
ResearcherFinishesPlain(i) ==
    ResearcherReturns(i, [output |-> TRUE, next_question |-> None, finished |-> TRUE],
                      now, now)

\* one task per respondent index, started at any time; the tasks interleave
\* at their backend calls. The backend answers every call, the researcher
\* asks one question at most.
NextConc ==
    \/ \E i \in Indices : StartConversation(i)
    \/ \E i \in Indices : ResearcherFinishesPlain(i)
    \/ \E i \in Indices : ResearcherAsksFirst(i)
    \/ \E i \in Indices, answer \in UserOutputs : RespondentReturns(i, answer)

SpecConc == Init /\ [][NextConc]_vars

\* ---- the respondent's calls with the injection hook in view ----

NextHook ==
    \/ \E i \in Indices : StartSequential(i)
    \/ \E i \in Indices : ResearcherFinishes(i)
    \/ \E i \in Indices : ResearcherAsks(i)
    \/ \E i \in Indices, draws \in FrictionDraws : OnLlmStart(i, draws)
    \/ \E i \in Indices, answer \in UserOutputs : RespondentAnswers(i, answer)

SpecHook == Init /\ [][NextHook]_vars

\* ---- constructions and the conversations of the Simulator they build ----

NextReuse ==
    \/ \E n \in 0 .. MaxUsers : Construct(n)
    \/ \E out \in ParsedOutputs, k \in 1 .. MaxBatch, d \in Descriptors :
          /\ k <= IF Len(out.profiles) = 0 THEN 1 ELSE Len(out.profiles)
          /\ GenerateProfileReturns(out, k, d)
    \/ GenerateProfileFails
    \/ \E i \in Indices : StartSequential(i)
    \/ \E i \in Indices : ResearcherFinishesPlain(i)

SpecReuse == InitCtor /\ [][NextReuse]_vars

NextCtor ==
    \/ \E n \in 0 .. MaxUsers : Construct(n)
    \/ \E out \in ParsedOutputs, k \in 1 .. MaxBatch, d \in Descriptors :
          /\ k <= IF Len(out.profiles) = 0 THEN 1 ELSE Len(out.profiles)
          /\ GenerateProfileReturns(out, k, d)
    \/ GenerateProfileFails

SpecCtor == InitCtor /\ [][NextCtor]_vars

\* ===================================================================== claims

\* a step in which conversation i handles the output of a researcher call
ResearcherStepOf(i) ==
    /\ conv[i].pc = "await_researcher"
    /\ conv'[i] # conv[i]
    /\ conv'[i].pc \notin {"backend_error", "cancelled"}

Min(a, b) == IF a < b THEN a ELSE b

RECURSIVE SumTo(_, _)
SumTo(f, n) == IF n = 0 THEN 0 ELSE f[n] + SumTo(f, n - 1)

CountRole(d, role) == Cardinality({ k \in 1 .. Len(d) : d[k].role = role })

Alternates(d) == \A k \in 1 .. (Len(d) - 1) : d[k].role # d[k + 1].role

\* ---- C1 ----
C1_AtCalls ==
    \A i \in Indices : InProgress(i) =>
        /\ conv[i].block_index < Len(study)
        /\ conv[i].context.discussion_block = study[conv[i].block_index + 1]
        /\ conv[i].finished_signals = conv[i].block_index

C1_AtEnd ==
    \A i \in Indices : conv[i].pc = "done" =>
        /\ conv[i].finished_signals = Len(study)
        /\ conv[i].block_index = Len(study)

C1_Step ==
    \A i \in Indices :
        /\ (~InProgress(i) /\ conv'[i].pc = "await_researcher") => conv'[i].block_index = 0
        /\ InProgress(i) =>
              \/ conv'[i].block_index = conv[i].block_index
              \/ /\ conv'[i].block_index = conv[i].block_index + 1
                 /\ ResearcherStepOf(i)
                 /\ conv'[i].researcher_output.finished
        /\ (ResearcherStepOf(i) /\ conv'[i].researcher_output.finished) =>
              conv'[i].block_index = conv[i].block_index + 1

\* C1: in simulate_conversation on a guide of B >= 1 blocks, the block index
\* starts at 0 and changes only by +1, in the step that consumes a finished
\* signal; at every researcher and respondent call the context's
\* discussion_block is blocks[block_index]; a conversation that ends
\* successfully has consumed exactly B finished signals.
C1_BlocksInOrder == [](C1_AtCalls /\ C1_AtEnd) /\ [][C1_Step]_vars

\* a two-block conversation that ended successfully with turns in it
C1_Witness ==
    \E i \in Indices :
        /\ conv[i].pc = "done"
        /\ Len(study) = 2
        /\ Len(conv[i].dialogue) >= 2

\* ---- C2 ----
\* C2: in every reachable state of simulate_conversation no two adjacent
\* turns of the dialogue have the same role; every turn is an assistant or a
\* user turn.
C2_RolesAlternate ==
    \A i \in Indices :
        /\ Alternates(conv[i].dialogue)
        /\ \A k \in 1 .. Len(conv[i].dialogue) :
              conv[i].dialogue[k].role \in {"assistant", "user"}

\* right after a block advance, with two full exchanges in the dialogue
C2_Witness ==
    \E i \in Indices :
        /\ conv[i].pc = "await_researcher"
        /\ conv[i].block_index = 1
        /\ conv[i].researcher_output.finished
        /\ Len(conv[i].dialogue) >= 4

\* ---- C3 ----
\* C3: the input of every respondent call is the suffix of the dialogue of
\* length min(4, len(dialogue)): at most 4 turns, exactly 4 when the dialogue
\* is longer than 4, ending with the question just appended.
C3_LastFourWindow ==
    \A i \in Indices : conv[i].pc = "await_respondent" =>
        LET d == conv[i].dialogue
            w == conv[i].user_dialogue
            n == Min(4, Len(d))
        IN  /\ Len(w) = n
            /\ \A k \in 1 .. n : w[k] = d[Len(d) - n + k]
            /\ Len(w) <= 4
            /\ Len(d) > 4 => Len(w) = 4
            /\ Len(w) >= 1
            /\ w[Len(w)] = Turn("assistant", conv[i].researcher_output.next_question)

\* a respondent call made with five turns in the dialogue
C3_Witness ==
    \E i \in Indices :
        /\ conv[i].pc = "await_respondent"
        /\ Len(conv[i].dialogue) = 5

\* ---- C4 ----
AbsentQuestion(out) ==
    \/ ~out.output
    \/ ~out.finished /\ out.next_question \in {None, ""}

C4_Step ==
    \A i \in Indices :
        /\ (ResearcherStepOf(i) /\ AbsentQuestion(conv'[i].researcher_output)) =>
              conv'[i] = [conv[i] EXCEPT
                             !.researcher_output = conv'[i].researcher_output,
                             !.pc = "value_error"]
        /\ conv[i].pc = "value_error" => conv'[i] = conv[i]

\* C4: when a researcher call returns no output, or finished = false with
\* next_question null or empty, the same step ends in the ValueError: no turn
\* is appended, no respondent or researcher call is made, the block and the
\* context stay; the conversation takes no step afterwards.
C4_InvalidOutputRaises == [][C4_Step]_vars

\* a ValueError on an empty question after one full exchange
C4_Witness ==
    \E i \in Indices :
        /\ conv[i].pc = "value_error"
        /\ conv[i].researcher_output.output
        /\ conv[i].researcher_output.next_question = ""
        /\ Len(conv[i].dialogue) = 2

\* ---- C5 ----
BlockOfTurn(q, n) ==
    CHOOSE k \in 1 .. Len(q) : 2 * SumTo(q, k - 1) < n /\ n <= 2 * SumTo(q, k)

\* C5: a conversation on B blocks in which the researcher asked q_k questions
\* in block k ends with sum(q_k) researcher turns and sum(q_k) respondent
\* turns in strict alternation, persisted as such, after sum(q_k) + B
\* researcher calls and sum(q_k) respondent calls; the question and the
\* answer of every block-k exchange were generated with block k active.
C5_TurnCounts ==
    \A i \in Indices : conv[i].pc = "done" =>
        LET d == conv[i].dialogue
            q == conv[i].asked
            total == SumTo(q, Len(q))
        IN  /\ Len(q) = Len(study)
            /\ CountRole(d, "assistant") = total
            /\ CountRole(d, "user") = total
            /\ Len(d) = 2 * total
            /\ Alternates(d)
            /\ conv[i].researcher_calls = total + Len(study)
            /\ conv[i].user_calls = total
            /\ Len(conv[i].gen_block) = Len(d)
            /\ \A n \in 1 .. Len(d) : conv[i].gen_block[n] = study[BlockOfTurn(q, n)]
            /\ \E file \in conversations :
                  /\ file.name[1] = i
                  /\ file.doc.dialogue = d

\* B = 2, q = (1, 2): three researcher and three respondent turns
C5_Witness ==
    \E i \in Indices :
        /\ conv[i].pc = "done"
        /\ conv[i].asked = <<1, 2>>
        /\ CountRole(conv[i].dialogue, "assistant") = 3
        /\ CountRole(conv[i].dialogue, "user") = 3

\* ---- C6 ----
C6_Step ==
    profile_file.exists =>
        /\ profile_file' = profile_file
        /\ profile_writes' = profile_writes
        /\ gen_calls' = 0
        /\ sim_pc' = "ready"
        /\ user_profiles' = profile_file.data

\* C6: constructing a Simulator when the run directory holds a profile batch
\* makes no generate_profile call and does not write the batch; the profiles
\* held are the persisted ones, however often the construction is repeated.
C6_ReuseIsIdempotent == [][C6_Step]_vars

\* a Simulator built over a persisted batch of two while asking for one user
C6_Witness ==
    /\ sim_pc = "ready"
    /\ profile_file.exists
    /\ profile_writes = 0
    /\ number_of_users = 1
    /\ Len(user_profiles) = 2
    /\ user_profiles[1] # user_profiles[2]

\* ---- C7 ----
FinishedStepOf(i) ==
    /\ ResearcherStepOf(i)
    /\ conv'[i].pc = "done"
    /\ conv'[i].researcher_output.finished
    /\ conv'[i].block_index = Len(study)
    /\ conv'[i].finished_signals = Len(study)

C7_NotDone ==
    \A i \in Indices : conv[i].pc # "done" =>
        /\ conv[i].saved = 0
        /\ ~ \E file \in conversations : file.name[1] = i

C7_Step ==
    /\ conversations' # conversations => \E i \in Indices : FinishedStepOf(i)
    /\ \A i \in Indices : conv'[i].saved # conv[i].saved => FinishedStepOf(i)

\* C7: a conversation that has not reached Finished (still running, or ended
\* by the ValueError, a backend error, an IndexError or a cancellation) has
\* no transcript persisted; a transcript is written only in the step that
\* consumes the finished signal of the last block.
C7_SaveOnlyWhenFinished == []C7_NotDone /\ [][C7_Step]_vars

\* a conversation ended by the ValueError after two full exchanges
C7_Witness ==
    \E i \in Indices :
        /\ conv[i].pc = "value_error"
        /\ Len(conv[i].dialogue) = 4
        /\ conversations = {}

\* ---- C8 ----
C8_Step ==
    \A i \in Indices :
        /\ (conv[i].pc # "done" /\ conv'[i].pc = "done") =>
              /\ conv'[i].dialogue = conv[i].dialogue
              /\ conv'[i].saved = 1
              /\ conv'[i].returned = [returned |-> TRUE, value |-> conv[i].dialogue]
              /\ conv'[i].researcher_calls = conv[i].researcher_calls
              /\ conv'[i].user_calls = conv[i].user_calls
              /\ \E file \in conversations' :
                    /\ file.name[1] = i
                    /\ file.doc.dialogue = conv[i].dialogue
                    /\ file.doc.profile = conv[i].context.user_profile
                    /\ file.doc.profile = user_profiles[i + 1]
                    /\ file.doc.metadata.total_turns = Len(conv[i].dialogue)
                    /\ file.doc.metadata.user_index = i
                    /\ file.doc.metadata.simulation_id = SimulationId
                    /\ file.doc.metadata.user_population = conv[i].context.user_population
                    /\ \A g \in conversations' : g = file \/ g \in conversations
                    /\ \A g \in conversations : g \in conversations' \/ g.name = file.name
        /\ conv[i].pc = "done" => conv'[i] = conv[i]

\* C8: the step that reaches Finished writes exactly one transcript: the
\* whole dialogue, the respondent's profile, and metadata with total_turns =
\* len(dialogue) and the conversation's user_index, simulation_id and
\* user_population; it returns that dialogue; afterwards the conversation
\* makes no call and its dialogue does not change.
C8_PersistOnceAndReturn == [][C8_Step]_vars

\* a finished conversation of two exchanges for the second respondent
C8_Witness ==
    \E i \in Indices :
        /\ i = 1
        /\ conv[i].pc = "done"
        /\ Len(conv[i].dialogue) = 4
        /\ \E file \in conversations : file.doc.metadata.total_turns = 4

\* ---- C9 ----
C9_Persisted(i) ==
    /\ conv[i].pc = "done"
    /\ \E file \in conversations :
          file.name[1] = i /\ file.doc.dialogue = conv[i].dialogue

C9_QuestionKeepsLooping ==
    \A i \in Indices :
        (ResearcherStepOf(i) /\ ~conv'[i].researcher_output.finished) =>
            /\ conv'[i].pc = "await_respondent"
            /\ Len(conv'[i].dialogue) = Len(conv[i].dialogue) + 1
            /\ conversations' = conversations

C9_NothingBeforeFinished ==
    \A i \in Indices : InProgress(i) =>
        ~ \E file \in conversations : file.name[1] = i

\* C9: the loop has no turn cap. With a backend that never fails, answers
\* every respondent call and signals finished at some call of every block, a
\* started conversation reaches Finished with its transcript persisted; an
\* output that is not a finished signal never ends the loop, whatever the
\* length of the dialogue, and nothing is persisted before Finished.
C9_TerminatesIffFinished ==
    /\ \A i \in Indices : (conv[i].pc = "await_researcher") ~> C9_Persisted(i)
    /\ [][C9_QuestionKeepsLooping]_vars
    /\ []C9_NothingBeforeFinished

\* a conversation that finished after as many questions as the model allows
C9_Witness ==
    \E i \in Indices :
        /\ C9_Persisted(i)
        /\ conv[i].user_calls = MaxQuestions
        /\ Len(study) = 2

\* ---- C10 ----
FirstCallFinished(i) ==
    /\ ResearcherStepOf(i)
    /\ conv[i].researcher_calls = 1
    /\ conv'[i].researcher_output.finished

C10_Step ==
    \A i \in Indices :
        /\ (FirstCallFinished(i) /\ Len(study) = 1) =>
              /\ conv'[i].pc = "done"
              /\ conv'[i].researcher_calls = 1
              /\ conv'[i].user_calls = 0
              /\ conv'[i].dialogue \in {<<>>, <<Turn("user", "Hi")>>}
              /\ conv'[i].returned.value = conv'[i].dialogue
              /\ \E file \in conversations' :
                    /\ file.name[1] = i
                    /\ file.doc.dialogue = conv'[i].dialogue
                    /\ file.doc.metadata.total_turns = Len(conv'[i].dialogue)
        /\ (/\ ResearcherStepOf(i)
            /\ conv'[i].researcher_output.finished
            /\ conv[i].asked[conv[i].block_index + 1] = 0) =>
              /\ conv'[i].dialogue = conv[i].dialogue
              /\ conv'[i].user_calls = conv[i].user_calls

\* C10: on a 1-block guide, when the first researcher call returns finished,
\* the conversation ends with one researcher call and no respondent call, its
\* dialogue is empty (or only the opening turn), and the transcript's
\* total_turns is the length of that dialogue; in general a finished signal
\* of a block in which no question was asked leaves the dialogue as it was.
C10_ImmediateFinish == [][C10_Step]_vars

\* a 1-block conversation ended by its first researcher call
C10_Witness ==
    \E i \in Indices :
        /\ conv[i].pc = "done"
        /\ Len(study) = 1
        /\ conv[i].researcher_calls = 1
        /\ conv[i].user_calls = 0
        /\ \E file \in conversations :
              file.name[1] = i /\ file.doc.metadata.total_turns = 0

\* ---- C11 ----
C11_Step ==
    \A i \in Indices : FinishedStepOf(i) =>
        /\ Cardinality(conversations') = Cardinality(conversations) + 1
        /\ \A g \in conversations : g \in conversations'

\* C11: persistence of transcripts is append-only within a run: the step that
\* completes a conversation adds one document to conversations_dir and every
\* document persisted before is still there, also when the same respondent
\* index is simulated again and finishes in the same clock second.
C11_AppendOnly == [][C11_Step]_vars

\* ---- C12 ----
C12_OthersUntouched ==
    \A i \in Indices : conv'[i] # conv[i] =>
        /\ \A j \in Indices \ {i} : conv'[j] = conv[j]
        /\ \A g \in conversations : g.name[1] # i => g \in conversations'
        /\ \A g \in conversations' : g.name[1] # i => g \in conversations

C12_OwnState ==
    \A i \in Indices : InProgress(i) =>
        /\ conv[i].context.user_profile = user_profiles[i + 1]
        /\ conv[i].context.discussion_block = study[conv[i].block_index + 1]
        /\ conv[i].finished_signals = conv[i].block_index

C12_OwnTranscript ==
    \A i \in Indices : conv[i].pc = "done" =>
        /\ Len(conv[i].gen_block) = Len(conv[i].dialogue)
        /\ \A n \in 1 .. Len(conv[i].dialogue) :
              conv[i].gen_block[n] = study[BlockOfTurn(conv[i].asked, n)]
        /\ \E file \in conversations :
              /\ file.name[1] = i
              /\ file.doc.dialogue = conv[i].dialogue
              /\ file.doc.profile = user_profiles[i + 1]
              /\ file.doc.metadata.user_index = i
        /\ \A file \in conversations :
              file.name[1] = i => file.doc.dialogue = conv[i].dialogue

\* C12: when the conversations of different respondent indices interleave at
\* their backend calls, a step of one never changes the frame (dialogue,
\* block index, context, profile) or the transcript of another; each works on
\* its own profile and on the block of its own progress, and ends with the
\* transcript made of its own turns, each generated under its own block.
C12_ConversationsIsolated ==
    /\ [][C12_OthersUntouched]_vars
    /\ [](C12_OwnState /\ C12_OwnTranscript)

\* two conversations in flight at different blocks, one waiting for its
\* respondent, the other for its researcher
C12_Witness ==
    \E i, j \in Indices :
        /\ i # j
        /\ conv[i].pc = "await_respondent"
        /\ conv[i].block_index = 0
        /\ conv[j].pc = "await_researcher"
        /\ conv[j].block_index = 1
        /\ Len(conv[j].dialogue) = 2

\* ---- C13 ----
HookHasRun(i) == conv[i].pc = "await_respondent" /\ conv[i].input_items # <<>>

FrictionProduced(i) == conv[i].friction_draws.low \/ conv[i].friction_draws.short

\* C13: in the request the hook builds for a respondent call the persona
\* directive is at position 0, the friction directive (when produced) at
\* position 1, the real turns follow in their order, unchanged; the hook adds
\* one system entry without friction and two with it.
C13_DirectivesFirst ==
    \A i \in Indices : HookHasRun(i) =>
        LET r == conv[i].input_items
            real == conv[i].user_dialogue
            added == IF FrictionProduced(i) THEN 2 ELSE 1
        IN  /\ Len(r) = Len(real) + added
            /\ r[1] = Turn("system", base_instruction(user_profiles[i + 1]))
            /\ FrictionProduced(i) =>
                  /\ r[2].role = "system"
                  /\ r[2].content # r[1].content
            /\ \A k \in 1 .. Len(real) :
                  /\ r[k + added] = real[k]
                  /\ real[k].role \in {"assistant", "user"}
            /\ Cardinality({ k \in 1 .. Len(r) : r[k].role = "system" }) = added
            /\ real = Window(conv[i].dialogue)

\* both directives before a window of four real turns
C13_Witness ==
    \E i \in Indices :
        /\ HookHasRun(i)
        /\ conv[i].friction_draws.low /\ conv[i].friction_draws.short
        /\ Len(conv[i].input_items) = WindowSize + 2
        /\ Len(conv[i].dialogue) > WindowSize

\* ---- C14 ----
C14_EveryCombinationPossible ==
    \A i \in Indices : (conv[i].pc = "await_respondent" /\ conv[i].input_items = <<>>) =>
        \A low \in BOOLEAN, short \in BOOLEAN :
            ENABLED (\E draws \in FrictionDraws :
                        /\ draws.low = low
                        /\ draws.short = short
                        /\ OnLlmStart(i, draws))

C14_FrictionOfDraws ==
    \A i \in Indices : HookHasRun(i) =>
        LET r == conv[i].input_items
            d == conv[i].friction_draws
            catalog == { low_frequency_friction[k] : k \in 1 .. Len(low_frequency_friction) }
            system == { k \in 1 .. Len(r) : r[k].role = "system" }
        IN  /\ r[1] = Turn("system", base_instruction(conv[i].context.user_profile))
            /\ (~d.low /\ ~d.short) <=> system = {1}
            /\ (d.low \/ d.short) <=> system = {1, 2}
            /\ (d.low /\ ~d.short) => r[2].content \in catalog
            /\ (d.low /\ d.short) =>
                  \E c \in catalog : r[2].content = c \o "\n" \o high_frequency_friction
            /\ (~d.low /\ d.short) => r[2].content = high_frequency_friction

\* C14: every respondent call gets the persona directive; the two friction
\* triggers are decided independently, each of the four combinations is
\* possible at every call; there is no friction directive exactly when
\* neither fires, and a low-frequency trigger contributes exactly one entry
\* of the catalog (followed by the short-response line when that fires too).
C14_FrictionTriggers == C14_EveryCombinationPossible /\ C14_FrictionOfDraws

\* the second respondent call of a conversation, low-frequency friction
\* alone, the last entry of the catalog
C14_Witness ==
    \E i \in Indices :
        /\ HookHasRun(i)
        /\ conv[i].user_calls = 2
        /\ conv[i].friction_draws = [low |-> TRUE,
                                     choice |-> Len(low_frequency_friction),
                                     short |-> FALSE]
        /\ conv[i].input_items[2] = Turn("system", "colloquial language")

\* ---- C15 ----
RealTurns(d) == \A k \in 1 .. Len(d) : d[k].role \in {"assistant", "user"}

\* C15: the directives injected before a respondent call never become part of
\* the dialogue, also when the dialogue has four turns or fewer and the
\* respondent call is handed the dialogue list itself: every entry of the
\* dialogue, of the returned value and of a persisted transcript has role
\* assistant or user, none has role system.
C15_NoDirectiveInDialogue ==
    /\ \A i \in Indices :
          /\ RealTurns(conv[i].dialogue)
          /\ RealTurns(conv[i].returned.value)
          /\ RealTurns(conv[i].agent_input)
          /\ HookHasRun(i) =>
                Len(conv[i].dialogue) = Len(conv[i].input_items)
                    - (IF FrictionProduced(i) THEN 2 ELSE 1)
                    + (IF Len(conv[i].dialogue) > WindowSize
                       THEN Len(conv[i].dialogue) - WindowSize ELSE 0)
    /\ \A file \in conversations :
          /\ RealTurns(file.doc.dialogue)
          /\ file.doc.metadata.total_turns = Len(file.doc.dialogue)

\* a transcript of two turns is persisted: its respondent call was made on
\* the dialogue list itself, after the hook put two directives in its request
C15_Witness ==
    \E i \in Indices :
        /\ conv[i].pc = "done"
        /\ Len(conv[i].dialogue) = 2
        /\ \E file \in conversations :
              file.name[1] = i /\ Len(file.doc.dialogue) = 2

\* ---- C16 ----
\* the loop of conversation i handles a finished signal and a next block exists
AdvanceStepOf(i) ==
    /\ ResearcherStepOf(i)
    /\ conv'[i].researcher_output.output
    /\ conv'[i].researcher_output.finished
    /\ conv'[i].block_index = conv[i].block_index + 1
    /\ conv'[i].block_index < Len(study)
    /\ conv'[i].pc = "await_researcher"

C16_Step ==
    \A i \in Indices : conv[i].context.exists =>
        /\ conv'[i].context # conv[i].context =>
              /\ AdvanceStepOf(i)
              /\ conv'[i].context = [conv[i].context EXCEPT
                    !.discussion_block = study[conv'[i].block_index + 1]]
        /\ conv[i].pc = "await_respondent" => conv'[i].context = conv[i].context
        /\ (ResearcherStepOf(i) /\ ~AdvanceStepOf(i)) =>
              conv'[i].context = conv[i].context

C16_InitialValues ==
    \A i \in Indices : conv[i].context.exists =>
        /\ conv[i].context.study_title = StudyName
        /\ conv[i].context.study_summary = StudySummary
        /\ conv[i].context.user_population = UserPopulation
        /\ conv[i].context.user_profile = user_profiles[i + 1]

\* C16: during a conversation the context changes only in discussion_block,
\* and only in the step that handles a finished signal when a next block
\* exists; researcher calls, respondent calls and the injection hook leave
\* it as it is, and study_title, study_summary, user_population and
\* user_profile keep their initial values up to persistence.
C16_ContextFrame == [][C16_Step]_vars /\ []C16_InitialValues

\* persisted after two blocks, the hook having run in the first
C16_Witness ==
    \E i \in Indices :
        /\ conv[i].pc = "done"
        /\ conv[i].block_index = 2
        /\ conv[i].asked[1] >= 1
        /\ conv[i].context.discussion_block = study[2]
        /\ conv[i].saved = 1

\* ---- C17 ----
IsPrefix(a, b) == Len(a) <= Len(b) /\ SubSeq(b, 1, Len(a)) = a

C17_Input ==
    \A i \in Indices : conv[i].pc = "await_researcher" =>
        /\ conv[i].agent_input # <<>>
        /\ conv[i].dialogue = <<>> =>
              conv[i].agent_input = <<[role |-> "user", content |-> "Hi"]>>
        /\ conv[i].dialogue # <<>> => conv[i].agent_input = conv[i].dialogue

C17_Step ==
    \A i \in Indices : conv[i].pc # "idle" =>
        /\ IsPrefix(conv[i].dialogue, conv'[i].dialogue)
        /\ Len(conv'[i].dialogue) <= Len(conv[i].dialogue) + 1
        /\ conv'[i].block_index # conv[i].block_index =>
              conv'[i].dialogue = conv[i].dialogue

\* C17: every researcher call receives a non-empty input, the single opening
\* turn (user "Hi") while the dialogue is empty and the whole dialogue of all
\* blocks otherwise; an advance to the next block leaves the dialogue as it
\* is, and the dialogue only grows by appends.
C17_ResearcherInput == []C17_Input /\ [][C17_Step]_vars

\* the researcher is called in the second block on six turns, four of them
\* of the first block
C17_Witness ==
    \E i \in Indices :
        /\ conv[i].pc = "await_researcher"
        /\ conv[i].block_index = 1
        /\ conv[i].asked = <<2, 1>>
        /\ Len(conv[i].agent_input) = 6

\* ---- C18 ----
C18_Step ==
    \A i \in Indices, answer \in {None, ""} :
        RespondentReturns(i, answer) =>
            /\ conv'[i].dialogue =
                  Append(conv[i].dialogue, [role |-> "user", content |-> ""])
            /\ conv'[i].pc = "await_researcher"
            /\ conv'[i].researcher_calls = conv[i].researcher_calls + 1
            /\ conv'[i].agent_input = conv'[i].dialogue

C18_EmptyReplyAccepted ==
    \A i \in Indices : conv[i].pc = "await_respondent" =>
        \A answer \in {None, ""} : ENABLED RespondentReturns(i, answer)

C18_QuestionsAnswered ==
    \A i \in Indices :
        LET d == conv[i].dialogue IN
        /\ \A k \in 1 .. Len(d) :
              /\ d[k].content # None
              /\ (d[k].role = "assistant" /\ k < Len(d)) =>
                    /\ d[k + 1].role = "user"
                    /\ k + 2 <= Len(d) => d[k + 2].role = "assistant"
        /\ (Len(d) > 0 /\ d[Len(d)].role = "assistant") =>
              conv[i].pc \in {"await_respondent", "backend_error", "cancelled"}

\* C18: an empty or missing respondent reply is no error: a respondent turn
\* with the empty string as content is appended and the researcher is called
\* next, so every appended question is followed by exactly one respondent
\* turn (but for a question whose respondent call is pending or has failed).
C18_EmptyReply ==
    /\ [][C18_Step]_vars
    /\ [](C18_EmptyReplyAccepted /\ C18_QuestionsAnswered)

\* an empty answer, then another question and its answer, persisted
C18_Witness ==
    \E i \in Indices :
        /\ conv[i].pc = "done"
        /\ Len(conv[i].dialogue) = 4
        /\ conv[i].dialogue[2] = [role |-> "user", content |-> ""]
        /\ conv[i].dialogue[3].role = "assistant"
        /\ conv[i].dialogue[4] = [role |-> "user", content |-> "A1"]

\* ---- C19 ----
NoProfiles(out) == ~out.parsed \/ out.profiles = <<>>

C19_Step ==
    \A out \in ParsedOutputs, k \in 1 .. MaxBatch, d \in Descriptors :
        (k <= Len(out.profiles) \/ NoProfiles(out)) /\ GenerateProfileReturns(out, k, d) =>
            IF NoProfiles(out)
            THEN /\ sim_pc' = "failed"
                 /\ generated_profiles' = generated_profiles
                 /\ user_profiles' = user_profiles
                 /\ profile_file' = profile_file
            ELSE /\ sim_pc' # "failed"
                 /\ Len(generated_profiles') = Len(generated_profiles) + 1
                 /\ LET new == generated_profiles'[Len(generated_profiles')] IN
                    /\ new.persona \in { out.profiles[j] : j \in 1 .. Len(out.profiles) }
                    /\ new.persona = out.profiles[k]
                    /\ new.persona \in Personas

C19_NoEmptyPersona ==
    /\ \A n \in 1 .. Len(generated_profiles) : generated_profiles[n].persona \in Personas
    /\ sim_pc = "failed" => user_profiles = <<>>

\* C19: generate_profile returns a member of the batch the backend returned
\* for that call; with no parsed output or an empty batch it fails, and no
\* default or empty profile is returned in place of one.
C19_ProfileFromBatch == [][C19_Step]_vars /\ []C19_NoEmptyPersona

\* a construction that failed at its second generate_profile call, the first
\* having chosen P2
C19_Witness ==
    /\ sim_pc = "failed"
    /\ gen_calls = 2
    /\ Len(generated_profiles) = 1
    /\ generated_profiles[1].persona = "P2"
    /\ ~profile_file.exists

\* ---- C20 ----
\* generate_users returns: the step that writes the batch
C20_Step ==
    profile_writes' # profile_writes =>
        /\ ~profile_file.exists
        /\ profile_writes' = profile_writes + 1
        /\ sim_pc' = "ready"
        /\ gen_calls' = number_of_users'
        /\ profile_file'.exists
        /\ Len(profile_file'.data) = number_of_users'
        /\ \A n \in 1 .. number_of_users' :
              /\ "profile" \in DOMAIN profile_file'.data[n]
              /\ profile_file'.data[n].profile \in Descriptors
              /\ profile_file'.data[n].persona \in Personas
        /\ user_profiles' = profile_file'.data
        /\ number_of_users' > 0 =>
              SubSeq(user_profiles', 1, number_of_users' - 1) = generated_profiles

C20_WhileGenerating ==
    /\ sim_pc = "generating" =>
          /\ ~profile_file.exists
          /\ gen_calls = Len(generated_profiles)
          /\ gen_calls < number_of_users
          /\ user_profiles = <<>>
    /\ (sim_pc = "ready" /\ gen_calls > 0) =>
          /\ gen_calls = number_of_users
          /\ profile_writes = 1
          /\ user_profiles = profile_file.data
    /\ (sim_pc = "ready" /\ profile_writes = 0) => gen_calls = 0

C20_ConstructGenerates ==
    (sim_pc # "generating" /\ sim_pc' # sim_pc /\ ~profile_file.exists) =>
        \/ sim_pc' = "generating" /\ number_of_users' > 0 /\ gen_calls' = 0
        \/ sim_pc' = "ready" /\ number_of_users' = 0 /\ profile_writes' = profile_writes + 1

\* C20: with no batch in the run directory, generate_users makes exactly
\* number_of_users generate_profile calls and writes a list of exactly
\* number_of_users profiles, one per respondent index, each with the
\* descriptor under 'profile'; the profiles held are the list written.
C20_GeneratedBatch ==
    /\ [][C20_Step /\ C20_ConstructGenerates]_vars
    /\ []C20_WhileGenerating

\* a batch of two generated and written
C20_Witness ==
    /\ sim_pc = "ready"
    /\ number_of_users = 2
    /\ gen_calls = 2
    /\ profile_writes = 1
    /\ Len(profile_file.data) = 2
    /\ user_profiles = profile_file.data
    /\ user_profiles[1].persona # user_profiles[2].persona

\* ---- C21 ----
\* the loop of conversation i consumes an output that sets finished and
\* carries a question as well
FinishedWithQuestionStepOf(i) ==
    /\ ResearcherStepOf(i)
    /\ conv'[i].researcher_output.output
    /\ conv'[i].researcher_output.finished
    /\ conv'[i].researcher_output.next_question \in Questions

C21_Step ==
    \A i \in Indices : FinishedWithQuestionStepOf(i) =>
        /\ conv'[i].dialogue = conv[i].dialogue
        /\ conv'[i].user_calls = conv[i].user_calls
        /\ conv'[i].asked = conv[i].asked
        /\ conv'[i].pc \in {"await_researcher", "done"}
        /\ conv'[i].block_index = conv[i].block_index + 1
        /\ conv'[i].finished_signals = conv[i].finished_signals + 1
        /\ conv'[i].pc = "done" <=> conv'[i].block_index >= Len(study)
        /\ conv'[i].pc = "await_researcher" =>
              /\ conv'[i].context.discussion_block = study[conv'[i].block_index + 1]
              /\ conv'[i].researcher_calls = conv[i].researcher_calls + 1
        /\ conv'[i].pc = "done" =>
              \E file \in conversations' :
                  file.name[1] = i /\ file.doc.dialogue = conv[i].dialogue

C21_QuestionDiscarded ==
    \A i \in Indices :
        conv[i].pc = "await_respondent" => ~conv[i].researcher_output.finished

\* C21: a researcher output with finished = true is handled as a finished
\* signal whatever next_question it carries: the question is not appended,
\* no respondent call is made for it, and the step only advances the block
\* or ends the conversation.
C21_FinishedFirst == [][C21_Step]_vars /\ []C21_QuestionDiscarded

\* after one exchange, an output with finished and a question moved the
\* conversation to the second block: the dialogue still has two turns
C21_Witness ==
    \E i \in Indices :
        /\ conv[i].pc = "await_researcher"
        /\ conv[i].researcher_output = [output |-> TRUE, next_question |-> "Q1",
                                        finished |-> TRUE]
        /\ conv[i].block_index = 1
        /\ Len(conv[i].dialogue) = 2
        /\ conv[i].user_calls = 1

\* ---- C22 ----
C22_ConstructStep ==
    \A n \in 0 .. MaxUsers : (profile_file.exists /\ Construct(n)) =>
        /\ number_of_users' = n
        /\ Len(user_profiles') = Len(profile_file.data)
        /\ \A k \in 1 .. Len(profile_file.data) : user_profiles'[k] = profile_file.data[k]
        /\ profile_file'.data = profile_file.data
        /\ generated_profiles' = <<>>
        /\ sim_pc' # "generating"

C22_StartStep ==
    \A i \in Indices : (profile_file.exists /\ conv[i].pc = "idle" /\ conv'[i].pc # "idle") =>
        /\ i >= Len(profile_file.data) => conv'[i].pc = "index_error"
        /\ (i < Len(profile_file.data) /\ Len(study) > 0) =>
              /\ conv'[i].pc = "await_researcher"
              /\ conv'[i].context.user_profile = profile_file.data[i + 1]

C22_HeldIsPersisted ==
    (sim_pc = "ready" /\ profile_file.exists) =>
        /\ Len(user_profiles) = Len(profile_file.data)
        /\ user_profiles = profile_file.data

\* C22: when the run directory holds a profile batch, the Simulator uses it as
\* it is whatever number_of_users is requested: nothing is regenerated, cut
\* or added, the number of profiles held is the length of the persisted
\* batch, and simulate_conversation(index) has a profile exactly for the
\* indices below that length.
C22_BatchUsedAsIs ==
    /\ [][C22_ConstructStep /\ C22_StartStep]_vars
    /\ []C22_HeldIsPersisted

\* two users requested over a persisted batch of one: the call for the second
\* index finds no profile
C22_Witness ==
    \E i \in Indices :
        /\ conv[i].pc = "index_error"
        /\ profile_file.exists
        /\ profile_writes = 0
        /\ Len(study) > 0
        /\ i < number_of_users
        /\ i >= Len(user_profiles)
        /\ Len(user_profiles) = 1

\* ---- C23 ----
C23_NoPartialFile ==
    /\ sim_pc \in {"generating", "failed"} =>
          /\ ~profile_file.exists
          /\ profile_writes = 0
          /\ user_profiles = <<>>
    /\ sim_pc = "failed" => Len(generated_profiles) < number_of_users

C23_WriteStep ==
    profile_file' # profile_file =>
        /\ ~profile_file.exists
        /\ profile_file'.exists
        /\ Len(generated_profiles') = number_of_users'
        /\ profile_file'.data = generated_profiles'
        /\ sim_pc' = "ready"

C23_FailStep ==
    (sim_pc = "generating" /\ sim_pc' = "failed") =>
        /\ profile_file' = profile_file
        /\ generated_profiles' = generated_profiles
        /\ gen_calls' = gen_calls + 1

\* a construction after a failed one starts the batch from nothing
C23_AgainStep ==
    (sim_pc = "failed" /\ sim_pc' # "failed") =>
        /\ gen_calls' = 0
        /\ generated_profiles' = <<>>
        /\ user_profiles' = <<>>
        /\ \/ sim_pc' = "generating" /\ ~profile_file'.exists
           \/ sim_pc' = "ready" /\ number_of_users' = 0 /\ profile_file'.data = <<>>

\* C23: the profile file is written only after all number_of_users profiles
\* were generated; when a generation call fails there is no profile file, and
\* a later construction for the run generates the whole batch again, it loads
\* no partial one.
C23_AllOrNothing ==
    /\ []C23_NoPartialFile
    /\ [][C23_WriteStep /\ C23_FailStep /\ C23_AgainStep]_vars

\* the second of two generations failed: one profile was generated, no file
C23_Witness ==
    /\ sim_pc = "failed"
    /\ number_of_users = 2
    /\ Len(generated_profiles) = 1
    /\ generated_profiles[1].persona = "P1"
    /\ ~profile_file.exists
    /\ profile_writes = 0

====
